---- MODULE Spec2Model ----
(***************************************************************************)
(* A model of mv::memory_view (the caching revision with slice_data and    *)
(* owning_handler), its two memory sources ptr_memory_source and           *)
(* istream_memory_source, and the decoding operations as, as_ptr, as_span, *)
(* unpack and unpack_head.                                                 *)
(*                                                                         *)
(* Pointers are pairs (region, off).  Region 0 is the caller's buffer that *)
(* a ptr_memory_source points into; region k >= 1 is the std::vector<char> *)
(* owned by the k-th owning_handler that was created.  A handler is named  *)
(* by its index, 0 standing for a null std::shared_ptr.                    *)
(***************************************************************************)
EXTENDS Integers, Sequences, FiniteSets, TLC

VARIABLES
    kind,       \* the source the views are over: "ptr" or "istream"
    arr,        \* the bytes of the caller's buffer (region 0), read by a ptr source
    container,  \* the caller's container whose storage the buffer is: [T, elems]
    stream,     \* the std::istream an istream source reads: [data, phys, pos, ok]
    views,      \* the memory_view objects: slot -> view record
    handlers,   \* the vectors of the owning_handler objects created so far
    span,       \* the gsl::span the caller holds, if any
    ret         \* what the last value-returning decode returned

vars == <<kind, arr, container, stream, views, handlers, span, ret>>

----------------------------------------------------------------------------
(* Bounds of the model.                                                    *)

\* bytes in the buffer and in the stream
SrcLen == 4
\* memory_view objects made
MaxViews == 2
\* owning_handler objects created (fetches of an istream source)
MaxHandlers == 2
\* fields of an unpack
MaxFields == 3

----------------------------------------------------------------------------
(* Bytes, types, pointers.                                                 *)

\* The test fixture's buffer {1, 2, 3, 4}, continued to n bytes.
Fixture(n) == [i \in 1..n |-> i]

\* The bytes behind the stream, told apart from the buffer's.
StreamFixture(n) == [i \in 1..n |-> 100 + i]

\* sizeof(T) of the integer types decoded: int8_t and char, int16_t, int32_t;
\* each is aligned to its size.
Sizes == {1, 2, 4}

nullptr == [region |-> -1, off |-> 0]

NoSlice == [ptr |-> nullptr, handler |-> 0]

NoSpan == [ptr |-> nullptr, count |-> 0, T |-> 0, view |-> 0]

NoRet == [op |-> "none", view |-> 0, types |-> <<>>, values |-> <<>>, reads |-> {}, tail |-> 0]

RangeMin(S) == CHOOSE x \in S : \A y \in S : x <= y

\* The value of *reinterpret_cast<const T*>(p), T a signed integer of Len(bytes)
\* bytes, on the little-endian host the tests assume (as<int>() of {1,2,3,4}
\* is 67305985).
RECURSIVE Cast(_)
Cast(bytes) ==
    IF Len(bytes) = 1
    THEN IF bytes[1] >= 128 THEN bytes[1] - 256 ELSE bytes[1]
    ELSE Head(bytes) + 256 * Cast(Tail(bytes))

\* The bytes a signed integer of n bytes is stored as.
RECURSIVE Encode(_, _)
Encode(value, n) ==
    IF n = 0 THEN <<>> ELSE <<value % 256>> \o Encode(value \div 256, n - 1)

----------------------------------------------------------------------------
(* Memory.                                                                 *)

\* The bytes of a memory region: the caller's buffer, or the vector of a
\* handler (empty once the handler is destroyed).
Region(hs, r) == IF r = 0 THEN arr ELSE hs[r]

Readable(hs, p, k) ==
    /\ p # nullptr
    /\ p.region = 0 \/ p.region \in 1..Len(hs)
    /\ p.off + k >= 0
    /\ p.off + k < Len(Region(hs, p.region))

\* One byte read through p + k; a read outside a live region is undefined
\* behaviour and yields whatever junk the caller of this operator supplies.
ReadByte(hs, p, k, junk) ==
    IF Readable(hs, p, k) THEN Region(hs, p.region)[p.off + k + 1] ELSE junk

ReadBytes(hs, p, k, n, junk) == [i \in 1..n |-> ReadByte(hs, p, k + i - 1, junk)]

----------------------------------------------------------------------------
(* Views.                                                                  *)

\* A slot that holds no memory_view object (not yet made, or destroyed).
NoView(st) ==
    [st |-> st, self_ |-> 0, begin_ |-> 0, end_ |-> 0, slice_ |-> NoSlice,
     how |-> "none", parent |-> 0, first |-> 0, last |-> 0, nfetch |-> 0,
     pc |-> "idle"]

Slots == 1..MaxViews

Live == {v \in Slots : views[v].st = "live"}

Free == {v \in Slots : views[v].st = "free"}

\* memory_view::size
size(view) == view.end_ - view.begin_

\* memory_view::empty
empty(view) == size(view) = 0

\* std::shared_ptr<base_handler>::use_count of handler h among the views vs:
\* the live views whose slice_ holds it (a gsl::span holds no handler).
UseCountIn(vs, h) ==
    Cardinality({v \in Slots : vs[v].st = "live" /\ vs[v].slice_.handler = h})

UseCount(h) == UseCountIn(views, h)

\* ~owning_handler: the vector of every handler that no view holds is freed.
Reap(vs, hs) == [h \in 1..Len(hs) |-> IF UseCountIn(vs, h) = 0 THEN <<>> ELSE hs[h]]

----------------------------------------------------------------------------
(* The memory sources.                                                     *)

\* ptr_memory_source::size
ptr_size == Len(arr)

\* A variant of the pointer source that hands out the buffer's start.
ptr_slice_from_start(begin, end) ==
    [slice |-> [ptr |-> [region |-> 0, off |-> 0], handler |-> 0],
     stream |-> stream, handlers |-> handlers]

\* ptr_memory_source::slice
ptr_slice(begin, end) ==
    [slice |-> [ptr |-> [region |-> 0, off |-> begin], handler |-> 0],
     stream |-> stream, handlers |-> handlers]

\* istream_memory_source::size: size_, the size the source was constructed
\* with.  stream.data are the size_ bytes the source is declared over, of
\* which the stream really has the first stream.phys.
istream_size == Len(stream.data)

\* A variant of the stream that reads on from where it is.
seekg_not(s, begin) == s

\* std::istream::seekg(begin): does nothing on a failed stream; a position
\* outside the stream sets failbit.
seekg(s, begin) ==
    IF ~s.ok THEN s
    ELSE IF begin < 0 \/ begin > s.phys THEN [s EXCEPT !.ok = FALSE]
    ELSE [s EXCEPT !.pos = begin]

\* std::istream::read into a zero-filled vector of the given length: what the
\* vector holds afterwards, and the stream afterwards (a read that meets the
\* end of the stream early sets eofbit and failbit).
istream_read(s, length) ==
    LET n == IF ~s.ok THEN 0
             ELSE IF s.phys - s.pos < length THEN s.phys - s.pos
             ELSE length
    IN  [data |-> [i \in 1..length |-> IF i <= n THEN s.data[s.pos + i] ELSE 0],
         stream |-> [s EXCEPT !.pos = s.pos + n, !.ok = s.ok /\ n = length]]

\* istream_memory_source::read
read(begin, end) ==
    LET length == end - begin
    IN  IF length = 0 THEN [data |-> <<>>, stream |-> stream]
        ELSE istream_read(seekg(stream, begin), length)

\* owning_handler::data of handler h holding the given vector.  What
\* std::vector::data() returns for an empty vector is unspecified: null
\* (emptyNull) or not.
handler_data(h, data, emptyNull) ==
    IF data = <<>> /\ emptyNull THEN nullptr ELSE [region |-> h, off |-> 0]

\* istream_memory_source::slice
istream_slice(begin, end, emptyNull) ==
    LET got == read(begin, end)
        h == Len(handlers) + 1
    IN  [slice |-> [ptr |-> handler_data(h, got.data, emptyNull), handler |-> h],
         stream |-> got.stream, handlers |-> Append(handlers, got.data)]

\* model<source_type>::size
model_size == IF kind = "ptr" THEN ptr_size ELSE istream_size

\* model<source_type>::slice
model_slice(begin, end, emptyNull) ==
    IF kind = "ptr" THEN ptr_slice(begin, end) ELSE istream_slice(begin, end, emptyNull)

----------------------------------------------------------------------------
(* memory_view.                                                            *)

\* memory_view::ptr: the view afterwards (slice_ is mutable), the pointer
\* returned, and the stream and the handlers afterwards.
ptr(view, emptyNull) ==
    IF view.slice_.ptr = nullptr
    THEN LET got == model_slice(view.begin_, view.end_, emptyNull)
         IN  [view |-> [view EXCEPT !.slice_ = got.slice, !.nfetch = @ + 1],
              ptr |-> got.slice.ptr, stream |-> got.stream, handlers |-> got.handlers]
    ELSE [view |-> view, ptr |-> view.slice_.ptr, stream |-> stream, handlers |-> handlers]

\* Variants of the slicing code, which the properties of slicing must tell
\* from the code: the cached pointer is not advanced; the end is counted from
\* the new begin; the end is taken as an absolute position; the slice is
\* fetched as soon as it is made.
advance_not(slice_, first) == slice_

slice_first_last_end_from_new_begin(view, first, last) ==
    [view |-> [view EXCEPT !.nfetch = 0,
                           !.begin_ = view.begin_ + first,
                           !.end_ = view.begin_ + first + last,
                           !.slice_ = IF @.ptr # nullptr
                                      THEN [@ EXCEPT !.ptr.off = @ + first] ELSE @],
     stream |-> stream, handlers |-> handlers]

slice_begin_last_absolute(view, last) ==
    [view |-> [view EXCEPT !.nfetch = 0, !.end_ = last],
     stream |-> stream, handlers |-> handlers]

slice_first_end_eager(view, first) ==
    LET got == ptr([view EXCEPT !.nfetch = 0,
                                !.begin_ = view.begin_ + first,
                                !.slice_ = NoSlice], FALSE)
    IN  [view |-> got.view, stream |-> got.stream, handlers |-> got.handlers]

\* A variant of operator()(first, last) that hands on the cache as it is.
slice_first_last_pointer_kept(view, first, last) ==
    [view |-> [view EXCEPT !.nfetch = 0,
                           !.begin_ = view.begin_ + first,
                           !.end_ = view.begin_ + last],
     stream |-> stream, handlers |-> handlers]

\* Further variants: the slice keeps the pointer but not the handler.
slice_first_end_unanchored(view, first) ==
    [view |-> [view EXCEPT !.nfetch = 0,
                           !.begin_ = view.begin_ + first,
                           !.slice_ = IF @.ptr # nullptr
                                      THEN [ptr |-> [@.ptr EXCEPT !.off = @ + first],
                                            handler |-> 0]
                                      ELSE @],
     stream |-> stream, handlers |-> handlers]

\* std::advance(copy.slice_.ptr, first), done when slice_.ptr is not null
advance(slice_, first) ==
    IF slice_.ptr # nullptr
    THEN [slice_ EXCEPT !.ptr = [region |-> @.region, off |-> @.off + first]]
    ELSE slice_

\* memory_view copy = *this: a new object, which has fetched nothing itself
copy_of(view) == [view EXCEPT !.nfetch = 0]

\* What a slicing operator leaves behind: the view it returns, and the stream
\* and the handlers, which it does not touch.
Sliced(view) == [view |-> view, stream |-> stream, handlers |-> handlers]

\* memory_view::operator()(first, last)
slice_first_last(view, first, last) ==
    Sliced([copy_of(view) EXCEPT !.begin_ = view.begin_ + first,
                                 !.end_ = view.begin_ + last,
                                 !.slice_ = advance(view.slice_, first)])

\* memory_view::operator()(first, end_t)
slice_first_end(view, first) ==
    Sliced([copy_of(view) EXCEPT !.begin_ = view.begin_ + first,
                                 !.slice_ = advance(view.slice_, first)])

\* memory_view::operator()(begin_t, last)
slice_begin_last(view, last) ==
    Sliced([copy_of(view) EXCEPT !.end_ = view.begin_ + last])

\* A variant of the constructor that leaves end_ at its default.
memory_view_default_end ==
    [NoView("live") EXCEPT !.self_ = 1, !.begin_ = 0, !.how = "root"]

\* memory_view::memory_view(source_type)
memory_view ==
    [NoView("live") EXCEPT !.self_ = 1, !.begin_ = 0, !.end_ = model_size, !.how = "root"]

\* A variant of the factory that takes the element count for the byte length.
make_memory_view_count(c) == [memory_view EXCEPT !.end_ = Len(c.elems)]

\* make_memory_view(container): memory_view(ptr_memory_source(
\* container.data(), container.size() * sizeof(container[0]))); the length
\* given to the source is what its size() returns to the constructor.
make_memory_view(c) == [memory_view EXCEPT !.end_ = Len(c.elems) * c.T]

\* A variant of as_span that counts a partial last element.
as_span_rounded_up(view, T, emptyNull) ==
    LET got == ptr(view, emptyNull)
    IN  [view |-> got.view, ptr |-> got.ptr, count |-> (size(view) + T - 1) \div T,
         stream |-> got.stream, handlers |-> got.handlers]

\* memory_view::as_span<T>: the view afterwards, the span's pointer and its
\* number of elements, and the stream and the handlers afterwards.
as_span(view, T, emptyNull) ==
    LET got == ptr(view, emptyNull)
    IN  [view |-> got.view, ptr |-> got.ptr, count |-> size(view) \div T,
         stream |-> got.stream, handlers |-> got.handlers]

\* alignof(T) of the integer types decoded
alignof(T) == T

RoundUp(n, a) == ((n + a - 1) \div a) * a

RECURSIVE SumSizes(_)
SumSizes(types) == IF types = <<>> THEN 0 ELSE Head(types) + SumSizes(Tail(types))

RECURSIVE MaxAlign(_)
MaxAlign(types) ==
    IF types = <<>> THEN 1
    ELSE LET m == MaxAlign(Tail(types))
         IN  IF alignof(Head(types)) > m THEN alignof(Head(types)) ELSE m

\* Where the members of a std::tuple<T...> end: each member lies at the next
\* offset aligned for it, the last type first (the order libstdc++ stores them).
RECURSIVE TupleEnd(_)
TupleEnd(types) ==
    IF types = <<>> THEN 0
    ELSE RoundUp(TupleEnd(Tail(types)), alignof(Head(types))) + Head(types)

\* sizeof(std::tuple<T...>): padded to the strictest alignment of its members
sizeof_tuple(types) == RoundUp(TupleEnd(types), MaxAlign(types))

\* memory_view::cast_and_move<T>: the offset afterwards, which is also where
\* the returned pointer points, relative to ptr
cast_and_move(offset, T) == offset - T

\* The pack expansion cast_and_move<T>(ptr(), offset)..., its calls evaluated
\* in the given order (the order of evaluation of function arguments is
\* unspecified): the pairs <<i, offset the i-th field is read at>>.
RECURSIVE cast_and_move_all(_, _, _)
cast_and_move_all(types, order, offset) ==
    IF order = <<>> THEN {}
    ELSE LET i == Head(order)
             at == cast_and_move(offset, types[i])
         IN  {<<i, at>>} \cup cast_and_move_all(types, Tail(order), at)

\* The same as a sequence: where each field is read, in the order of declaration.
FieldOffsets(types, order, start) ==
    LET ats == cast_and_move_all(types, order, start)
    IN  [i \in 1..Len(types) |-> (CHOOSE pr \in ats : pr[1] = i)[2]]

\* std::make_tuple(*cast_and_move<T>(ptr(), offset)...) with offset starting at
\* start: the tuple, and the offsets from ptr that were read.  ptr() is called
\* for each field; the window is not empty (no empty vector is in play), so the
\* first call leaves slice_.ptr not null and the later calls return it.
make_tuple(view, types, order, start, junk) ==
    LET got == ptr(view, FALSE)
        at == FieldOffsets(types, order, start)
    IN  [view |-> got.view, stream |-> got.stream, handlers |-> got.handlers,
         values |-> [i \in 1..Len(types) |->
                        Cast(ReadBytes(got.handlers, got.ptr, at[i], types[i], junk))],
         reads |-> UNION {at[i]..(at[i] + types[i] - 1) : i \in 1..Len(types)}]

\* memory_view::unpack<T...>
unpack(view, types, order, junk) ==
    make_tuple(view, types, order, sizeof_tuple(types), junk)

\* memory_view::unpack_head<T...>: the tail is sliced off before ptr() is called
unpack_head(view, types, order, junk) ==
    LET offset == sizeof_tuple(types)
        tail == slice_first_end(view, offset).view
        head == make_tuple(view, types, order, offset, junk)
    IN  [head |-> head, tail |-> tail]

----------------------------------------------------------------------------
(* The memory_view of include/memory_view.hpp, which keeps no cache and    *)
(* fetches on every decode; over a ptr_memory_source.                      *)

\* ptr_memory_source::fetch
ptr_fetch(begin, end) == [region |-> 0, off |-> begin]

\* memory_view::memory_view(source_type)
fetching_memory_view == [self_ |-> 1, begin_ |-> 0, end_ |-> ptr_size]

\* memory_view::size
fetching_size(view) == view.end_ - view.begin_

\* memory_view::operator()(first, last)
fetching_slice_first_last(view, first, last) ==
    [view EXCEPT !.begin_ = view.begin_ + first, !.end_ = view.begin_ + last]

\* memory_view::operator()(first, end_t)
fetching_slice_first_end(view, first) == [view EXCEPT !.begin_ = view.begin_ + first]

\* memory_view::operator()(begin_t, last)
fetching_slice_begin_last(view, last) == [view EXCEPT !.end_ = view.begin_ + last]

\* memory_view::as_ptr
fetching_as_ptr(view) == ptr_fetch(view.begin_, view.end_)

\* memory_view::as<T>
fetching_as(view, T) == Cast(ReadBytes(handlers, fetching_as_ptr(view), 0, T, 0))

\* memory_view::as_span<T>
fetching_as_span(view, T) ==
    [ptr |-> fetching_as_ptr(view), count |-> fetching_size(view) \div T]

\* memory_view::unpack<T...>
fetching_unpack(view, types, order, junk) ==
    LET offset == sizeof_tuple(types)
        p == fetching_as_ptr(view)
        at == FieldOffsets(types, order, offset)
    IN  [i \in 1..Len(types) |-> Cast(ReadBytes(handlers, p, at[i], types[i], junk))]

\* memory_view::unpack_head<T...>
fetching_unpack_head(view, types, order, junk) ==
    LET offset == sizeof_tuple(types)
        tail == fetching_slice_first_end(view, offset)
    IN  [head |-> fetching_unpack(view, types, order, junk), tail |-> tail]

\* The caller's new memory_view object, with a note of how it was made.
Made(view, how, parent, first, last) ==
    [view EXCEPT !.st = "live", !.how = how, !.parent = parent,
                 !.first = first, !.last = last]

NewSlot == RangeMin(Free)

\* The caller binds the view an operation returned; nothing else the
\* operation left behind is lost.
Bind(got, how, parent, first, last) ==
    /\ Len(got.handlers) <= MaxHandlers
    /\ views' = [views EXCEPT ![NewSlot] = Made(got.view, how, parent, first, last)]
    /\ stream' = got.stream
    /\ handlers' = Reap(views', got.handlers)

\* A view whose window the source can be asked for: 0 <= begin <= end <= size()
InRange(view) ==
    0 <= view.begin_ /\ view.begin_ <= view.end_ /\ view.end_ <= model_size

----------------------------------------------------------------------------
(* The operations of a caller.                                             *)

\* memory_view::memory_view(const memory_view&)
Copy(v) ==
    /\ v \in Live
    /\ Free # {}
    /\ Bind(Sliced(copy_of(views[v])), "copy", v, 0, 0)
    /\ UNCHANGED <<kind, arr, container, span, ret>>

\* v(first, last) with 0 <= first <= last <= v.size()
SliceFirstLast(v, first, last) ==
    /\ v \in Live
    /\ Free # {}
    /\ 0 <= first /\ first <= last /\ last <= size(views[v])
    /\ Bind(slice_first_last(views[v], first, last), "first_last", v, first, last)
    /\ UNCHANGED <<kind, arr, container, span, ret>>

\* v(first, mv::end) with 0 <= first <= v.size()
SliceFirstEnd(v, first) ==
    /\ v \in Live
    /\ Free # {}
    /\ 0 <= first /\ first <= size(views[v])
    /\ Bind(slice_first_end(views[v], first), "first_end", v, first, 0)
    /\ UNCHANGED <<kind, arr, container, span, ret>>

\* v(mv::begin, last) with 0 <= last <= v.size()
SliceBeginLast(v, last) ==
    /\ v \in Live
    /\ Free # {}
    /\ 0 <= last /\ last <= size(views[v])
    /\ Bind(slice_begin_last(views[v], last), "begin_last", v, 0, last)
    /\ UNCHANGED <<kind, arr, container, span, ret>>

\* What a call of ptr() on view v leaves behind: the view's cache, the stream
\* and the handlers (one that lost its last holder is destroyed).
Fetched(v, got) ==
    /\ Len(got.handlers) <= MaxHandlers
    /\ views' = [views EXCEPT ![v] = got.view]
    /\ stream' = got.stream
    /\ handlers' = Reap(views', got.handlers)

\* memory_view::as_ptr
AsPtr(v) ==
    /\ v \in Live
    /\ InRange(views[v])
    /\ \E emptyNull \in BOOLEAN : Fetched(v, ptr(views[v], emptyNull))
    /\ UNCHANGED <<kind, arr, container, span, ret>>

\* memory_view::as<T>, called with size() >= sizeof(T)
As(v, T) ==
    /\ v \in Live
    /\ InRange(views[v])
    /\ size(views[v]) >= T
    /\ LET got == ptr(views[v], FALSE)
       IN  /\ Fetched(v, got)
           /\ ret' = [NoRet EXCEPT !.op = "as", !.view = v, !.types = <<T>>,
                          !.values = <<Cast(ReadBytes(got.handlers, got.ptr, 0, T, 0))>>]
    /\ UNCHANGED <<kind, arr, container, span>>

\* memory_view::as_span<T>; the caller keeps the gsl::span it gets
AsSpan(v, T) ==
    /\ v \in Live
    /\ InRange(views[v])
    /\ \E emptyNull \in BOOLEAN :
         LET got == as_span(views[v], T, emptyNull)
         IN  /\ Fetched(v, got)
             /\ span' = [ptr |-> got.ptr, count |-> got.count, T |-> T, view |-> v]
    /\ UNCHANGED <<kind, arr, container, ret>>

\* The field lists T... of an unpack, and the orders its arguments may be
\* evaluated in.
FieldLists == UNION {[1..n -> Sizes] : n \in 1..MaxFields}

Orders(types) == Permutations(1..Len(types))

\* What an out-of-bounds read may find.
Junk == {0, 255}

\* The junk to choose from when n bytes are read through the view's pointer:
\* none when every one of them exists.
JunkFor(view, n) ==
    LET got == ptr(view, FALSE)
    IN  IF \A k \in 0..(n - 1) : Readable(got.handlers, got.ptr, k) THEN {0} ELSE Junk

\* memory_view::unpack<T...>, called with size() >= sizeof(T1) + ... + sizeof(Tn)
Unpack(v, types, order) ==
    /\ v \in Live
    /\ InRange(views[v])
    /\ SumSizes(types) <= size(views[v])
    /\ \E junk \in JunkFor(views[v], sizeof_tuple(types)) :
         LET got == unpack(views[v], types, order, junk)
         IN  /\ Fetched(v, got)
             /\ ret' = [NoRet EXCEPT !.op = "unpack", !.view = v, !.types = types,
                            !.values = got.values, !.reads = got.reads]
    /\ UNCHANGED <<kind, arr, container, span>>

\* memory_view::unpack_head<T...>, called with
\* size() >= sizeof(T1) + ... + sizeof(Tn); the caller binds the tail
UnpackHead(v, types, order) ==
    /\ v \in Live
    /\ InRange(views[v])
    /\ Free # {}
    /\ SumSizes(types) <= size(views[v])
    /\ \E junk \in JunkFor(views[v], sizeof_tuple(types)) :
         LET got == unpack_head(views[v], types, order, junk)
         IN  /\ Len(got.head.handlers) <= MaxHandlers
             /\ views' = [views EXCEPT
                    ![v] = got.head.view,
                    ![NewSlot] = Made(got.tail, "tail", v, sizeof_tuple(types), 0)]
             /\ stream' = got.head.stream
             /\ handlers' = Reap(views', got.head.handlers)
             /\ ret' = [NoRet EXCEPT !.op = "unpack_head", !.view = v, !.types = types,
                            !.values = got.head.values, !.reads = got.head.reads,
                            !.tail = NewSlot]
    /\ UNCHANGED <<kind, arr, container, span>>

\* memory_view::~memory_view
Destroy(v) ==
    /\ v \in Live
    /\ views' = [views EXCEPT ![v] = NoView("dead")]
    /\ handlers' = Reap(views', handlers)
    /\ UNCHANGED <<kind, arr, container, stream, span, ret>>

\* The caller lets go of its span.
DropSpan ==
    /\ span # NoSpan
    /\ span' = NoSpan
    /\ UNCHANGED <<kind, arr, container, stream, views, handlers, ret>>

\* A thread that decodes through its own view v of a stream source, inside
\* istream_memory_source::read: it has done stream_.seekg(begin) on the
\* stream all views share ...
ThreadSeek(v) ==
    /\ v \in Live
    /\ kind = "istream"
    /\ views[v].pc = "idle"
    /\ views[v].slice_.ptr = nullptr
    /\ InRange(views[v])
    /\ size(views[v]) > 0
    /\ Len(handlers) < MaxHandlers
    /\ stream' = seekg(stream, views[v].begin_)
    /\ views' = [views EXCEPT ![v].pc = "sought"]
    /\ UNCHANGED <<kind, arr, container, handlers, span, ret>>

\* ... and now does stream_.read(&data[0], length) from wherever the stream
\* stands, wraps the vector in a handler and caches it in its view.
ThreadRead(v) ==
    /\ v \in Live
    /\ views[v].pc = "sought"
    /\ LET got == istream_read(stream, size(views[v]))
           h == Len(handlers) + 1
       IN  /\ views' = [views EXCEPT
                  ![v].slice_ = [ptr |-> handler_data(h, got.data, FALSE), handler |-> h],
                  ![v].nfetch = @ + 1,
                  ![v].pc = "idle"]
           /\ stream' = got.stream
           /\ handlers' = Reap(views', Append(handlers, got.data))
    /\ UNCHANGED <<kind, arr, container, span, ret>>

\* A thread's decode that has no step in between: the view is cached, the
\* window is empty, or the source is a pointer.
ThreadDecode(v) ==
    /\ v \in Live
    /\ views[v].pc = "idle"
    /\ kind = "ptr" \/ views[v].slice_.ptr # nullptr \/ empty(views[v])
    /\ AsPtr(v)

\* A thread between two calls makes a copy or a slice for another thread.
ThreadCopy(v) == v \in Live /\ views[v].pc = "idle" /\ Copy(v)

ThreadSlice(v, first) == v \in Live /\ views[v].pc = "idle" /\ SliceFirstEnd(v, first)

----------------------------------------------------------------------------
(* Specifications.                                                         *)

\* The views a caller can hold right after construction: the memory_view
\* constructed over the source, or a slice memory_view(source)(first, last) of
\* that temporary.
FirstViews ==
    {memory_view} \cup
    {Made(slice_first_last(memory_view, w[1], w[2]).view, "first_last", 0, w[1], w[2]) :
        w \in {x \in (0..SrcLen) \X (0..SrcLen) : x[1] <= x[2]}} \cup
    {Made(slice_first_end(memory_view, first).view, "first_end", 0, first, 0) :
        first \in 1..SrcLen}

\* A memory_view has just been constructed over a source of either kind.
Start ==
    /\ kind \in {"ptr", "istream"}
    /\ arr = Fixture(SrcLen)
    /\ container = [T |-> 1, elems |-> Fixture(SrcLen)]
    /\ stream = [data |-> StreamFixture(SrcLen), phys |-> SrcLen, pos |-> 0, ok |-> TRUE]
    /\ handlers = <<>>
    /\ views \in {[v \in Slots |-> IF v = 1 THEN first ELSE NoView("free")] : first \in FirstViews}
    /\ span = NoSpan
    /\ ret = NoRet

Slicing ==
    \/ \E v \in Slots : Copy(v)
    \/ \E v \in Slots, first \in 0..SrcLen, last \in 0..SrcLen : SliceFirstLast(v, first, last)
    \/ \E v \in Slots, first \in 0..SrcLen : SliceFirstEnd(v, first)
    \/ \E v \in Slots, last \in 0..SrcLen : SliceBeginLast(v, last)

\* Slicing and caching: views are copied, sliced and decoded.
Init == Start

Next ==
    \/ Slicing
    \/ \E v \in Slots : AsPtr(v)

Spec == Init /\ [][Next]_vars

\* Lifetimes: views are also destroyed, and the caller holds a span.
InitLife == Start

NextLife ==
    \/ \E v \in Slots : Copy(v)
    \/ \E v \in Slots, first \in 0..SrcLen : SliceFirstEnd(v, first)
    \/ \E v \in Slots : AsPtr(v)
    \/ \E v \in Slots, T \in Sizes : AsSpan(v, T)
    \/ \E v \in Slots : Destroy(v)
    \/ DropSpan

SpecLife == InitLife /\ [][NextLife]_vars

\* Decoding: views are decoded into values and unpacked.
InitDecode == Start

NextDecode ==
    \/ \E v \in Slots : AsPtr(v)
    \/ \E v \in Slots, T \in Sizes : As(v, T)
    \/ \E v \in Slots, types \in FieldLists : \E order \in Orders(types) : Unpack(v, types, order)
    \/ \E v \in Slots, types \in FieldLists : \E order \in Orders(types) : UnpackHead(v, types, order)

SpecDecode == InitDecode /\ [][NextDecode]_vars

\* Threads: every view belongs to a thread of its own, and the threads'
\* decodes interleave.
InitThreads == Start

NextThreads ==
    \/ \E v \in Slots : ThreadCopy(v)
    \/ \E v \in Slots, first \in 0..SrcLen : ThreadSlice(v, first)
    \/ \E v \in Slots : ThreadSeek(v)
    \/ \E v \in Slots : ThreadRead(v)
    \/ \E v \in Slots : ThreadDecode(v)

SpecThreads == InitThreads /\ [][NextThreads]_vars

\* The values of the elements of the caller's containers, by element size.
ElemValues(T) == IF T = 1 THEN {-2, 1} ELSE IF T = 2 THEN {-2, 258} ELSE {-2, 67305985}

\* The contiguous containers a caller may have: k elements of one integer
\* type, at most SrcLen bytes in all.
Containers ==
    UNION {{[T |-> T, elems |-> e] : e \in [1..k -> ElemValues(T)]} :
              <<T, k>> \in {x \in Sizes \X (0..SrcLen) : x[1] * x[2] <= SrcLen}}

\* The bytes of a container's storage: its elements one after the other.
RECURSIVE Storage(_, _)
Storage(T, elems) ==
    IF elems = <<>> THEN <<>> ELSE Encode(Head(elems), T) \o Storage(T, Tail(elems))

\* Factory: the view is made by make_memory_view over a container.
InitMake ==
    /\ kind = "ptr"
    /\ container \in Containers
    /\ arr = Storage(container.T, container.elems)
    /\ stream = [data |-> <<>>, phys |-> 0, pos |-> 0, ok |-> TRUE]
    /\ handlers = <<>>
    /\ views = [v \in Slots |-> IF v = 1 THEN make_memory_view(container) ELSE NoView("free")]
    /\ span = NoSpan
    /\ ret = NoRet

NextMake ==
    \/ \E v \in Slots : Copy(v)
    \/ \E v \in Slots : AsPtr(v)
    \/ \E v \in Slots, T \in Sizes : AsSpan(v, T)
    \/ DropSpan

SpecMake == InitMake /\ [][NextMake]_vars

\* Slicing and decoding of every kind over a pointer source.
InitEquiv == Start /\ kind = "ptr" /\ views[1] = memory_view

NextEquiv ==
    \/ Slicing
    \/ \E v \in Slots : AsPtr(v)
    \/ \E v \in Slots, T \in Sizes : As(v, T)
    \/ \E v \in Slots, types \in FieldLists : \E order \in Orders(types) : Unpack(v, types, order)
    \/ \E v \in Slots, types \in FieldLists : \E order \in Orders(types) : UnpackHead(v, types, order)

SpecEquiv == InitEquiv /\ [][NextEquiv]_vars

\* I/O failure: the stream has fewer bytes than the size the source was
\* constructed with, or is in a failed state from the start.
StartFail ==
    /\ kind = "istream"
    /\ arr = Fixture(SrcLen)
    /\ container = [T |-> 1, elems |-> Fixture(SrcLen)]
    /\ stream \in
           {[data |-> StreamFixture(SrcLen), phys |-> p, pos |-> 0, ok |-> TRUE] :
               p \in 0..(SrcLen - 1)} \cup
           {[data |-> StreamFixture(SrcLen), phys |-> SrcLen, pos |-> 0, ok |-> FALSE]}
    /\ handlers = <<>>
    /\ views \in {[v \in Slots |-> IF v = 1 THEN first ELSE NoView("free")] : first \in FirstViews}
    /\ span = NoSpan
    /\ ret = NoRet

InitFail == StartFail

NextFail ==
    \/ \E v \in Slots : Copy(v)
    \/ \E v \in Slots : AsPtr(v)
    \/ \E v \in Slots, T \in Sizes : As(v, T)

SpecFail == InitFail /\ [][NextFail]_vars

----------------------------------------------------------------------------
(* What the claims speak of.                                               *)

\* The bytes of the source the views are over.
SourceBytes == IF kind = "ptr" THEN arr ELSE stream.data

\* The bytes of the source inside a view's window [begin_, end_).
Window(view) == SubSeq(SourceBytes, view.begin_ + 1, view.end_)

\* The bytes a decode of the view reads over its window, through ptr();
\* -1 stands for a byte that cannot be read.
DecodedBytes(view) ==
    LET got == ptr(view, TRUE)
    IN  ReadBytes(got.handlers, got.ptr, 0, size(view), -1)

\* sizeof(T1) + ... + sizeof(T(i-1)): where field i lies in a packed record
PackedOffset(types, i) == SumSizes(SubSeq(types, 1, i - 1))

\* The fields of a packed record of the given types at the start of bytes.
PackedFields(types, bytes) ==
    [i \in 1..Len(types) |->
        Cast(SubSeq(bytes, PackedOffset(types, i) + 1, PackedOffset(types, i) + types[i]))]

\* The values stored one after the other with no padding.
RECURSIVE Pack(_, _)
Pack(types, values) ==
    IF types = <<>> THEN <<>>
    ELSE Encode(Head(values), Head(types)) \o Pack(Tail(types), Tail(values))

----------------------------------------------------------------------------
(* C1..C6.                                                                 *)

\* C1: a view's decodes (as, as_span, unpack, unpack_head, as_ptr) make the
\* source fetch once in all, whatever the window, an empty one included: no
\* view object ever fetches a second time.
C1_FetchesOnce == \A v \in Live : views[v].nfetch <= 1

\* C2: the buffer a span of a stream-backed view points into stays alive (its
\* handler's use count is above 0) for as long as the span exists, also when
\* every view is gone.
C2_SpanKeepsBufferAlive ==
    (span # NoSpan /\ span.ptr.region >= 1) => UseCount(span.ptr.region) > 0

\* C3: unpack<T1..Tn>() returns, in the order of declaration, field i decoded
\* from the window's bytes at offset sizeof(T1) + ... + sizeof(T(i-1)).
C3_UnpackReadsPackedFields ==
    ret.op = "unpack" =>
        ret.values = PackedFields(ret.types, Window(views[ret.view]))

\* C4: the tuple of unpack and the head of unpack_head are the same for every
\* order the per-field decode steps may be evaluated in (stated where every
\* byte read exists, so that no junk is in play).
C4_UnpackOrderIndependent ==
    (ret.op \in {"unpack", "unpack_head"}
        /\ JunkFor(views[ret.view], sizeof_tuple(ret.types)) = {0}) =>
        \A order \in Orders(ret.types) :
            unpack(views[ret.view], ret.types, order, 0).values = ret.values

\* C5: unpack reads only the leading sizeof(T1) + ... + sizeof(Tn) bytes of the
\* window, and the returned tuple stored field by field is those bytes again.
C5_UnpackRoundTrip ==
    ret.op = "unpack" =>
        LET n == SumSizes(ret.types)
        IN  /\ ret.reads \subseteq 0..(n - 1)
            /\ Pack(ret.types, ret.values) = SubSeq(Window(views[ret.view]), 1, n)

\* C6: the tail of unpack_head<T1..Tn>() is a view of the same source over
\* [begin + sizeof(T1) + ... + sizeof(Tn), end): the head's bytes followed by
\* the tail's are the window, and the tail is that much shorter.
C6_UnpackHeadTail ==
    ret.op = "unpack_head" =>
        LET view == views[ret.view]
            tail == views[ret.tail]
            n == SumSizes(ret.types)
        IN  /\ tail.self_ = view.self_
            /\ tail.begin_ = view.begin_ + n
            /\ tail.end_ = view.end_
            /\ size(tail) = size(view) - n
            /\ SubSeq(Window(view), 1, n) \o Window(tail) = Window(view)

----------------------------------------------------------------------------
(* C7..C10.                                                                *)

\* The view a view was sliced from: a live view, or the temporary the
\* constructor returned, which nothing has decoded.
ParentOf(view) == IF view.parent = 0 THEN memory_view ELSE views[view.parent]

SliceKinds == {"first_last", "first_end", "begin_last"}

\* The views made by the slicing operator `how`.
Children(how) == {v \in Live : views[v].how = how}

\* Two views have the same window, the same source and the same decoded bytes.
SameView(x, y) ==
    /\ x.begin_ = y.begin_
    /\ x.end_ = y.end_
    /\ x.self_ = y.self_
    /\ DecodedBytes(x) = DecodedBytes(y)

\* C7: for V(a,b) made of V, and every c <= d with a + d <= b, V(a,b)(c,d) has
\* the window, the source and the decoded bytes of V(a+c, a+d), whether V or
\* V(a,b) has been decoded or not.
C7_SlicingComposes ==
    \A m \in Children("first_last") :
        LET V == ParentOf(views[m])
            a == views[m].first
            b == views[m].last
        IN  \A c \in 0..SrcLen, d \in 0..SrcLen :
                (c <= d /\ a + d <= b) =>
                    SameView(slice_first_last(views[m], c, d).view,
                             slice_first_last(V, a + c, a + d).view)

\* C7 happens: over a stream, a decoded V(a,b) with a > 0 and room for an
\* inner slice, made of a live V that begins inside the source.
C7_Witness ==
    \E m \in Children("first_last") :
        /\ kind = "istream"
        /\ views[m].parent # 0
        /\ views[views[m].parent].begin_ > 0
        /\ views[m].first > 0
        /\ size(views[m]) >= 2
        /\ views[m].nfetch = 1

\* C8: V(first, last) shares V's source, has the window
\* [V.begin + first, V.begin + last) and the size last - first, and decodes
\* the bytes of V's window from index first on.
C8_SliceIsRelative ==
    \A x \in Children("first_last") :
        LET V == ParentOf(views[x])
            first == views[x].first
            last == views[x].last
        IN  /\ views[x].self_ = V.self_
            /\ views[x].begin_ = V.begin_ + first
            /\ views[x].end_ = V.begin_ + last
            /\ size(views[x]) = last - first
            /\ DecodedBytes(views[x]) = SubSeq(DecodedBytes(V), first + 1, last)
            /\ DecodedBytes(views[x]) = SubSeq(Window(V), first + 1, last)

\* C8 happens: V(1,3) of a decoded V that begins inside the source; the slice
\* has the cache of V and has fetched nothing itself.
C8_Witness ==
    \E x \in Children("first_last") :
        /\ views[x].parent # 0
        /\ views[views[x].parent].begin_ > 0
        /\ views[x].first = 1 /\ views[x].last = 3
        /\ views[x].slice_.ptr # nullptr
        /\ views[x].nfetch = 0

\* C9: V(first, END) is first shorter than V and ends where V ends;
\* V(BEGIN, last) has size last and starts where V starts.
C9_OpenEndedSlices ==
    /\ \A x \in Children("first_end") :
           /\ size(views[x]) = size(ParentOf(views[x])) - views[x].first
           /\ views[x].end_ = ParentOf(views[x]).end_
    /\ \A x \in Children("begin_last") :
           /\ size(views[x]) = views[x].last
           /\ views[x].begin_ = ParentOf(views[x]).begin_

\* C9 happens: W = V(first, END) with first > 0, and W(BEGIN, last) that drops
\* some of W but not all.
C9_Witness ==
    \E x \in Children("begin_last") :
        /\ views[x].parent \in Children("first_end")
        /\ views[views[x].parent].first > 0
        /\ 0 < views[x].last
        /\ views[x].last < size(views[views[x].parent])

\* The fetches made so far, through every view.
RECURSIVE FetchCountIn(_, _)
FetchCountIn(vs, n) == IF n = 0 THEN 0 ELSE vs[n].nfetch + FetchCountIn(vs, n - 1)

FetchCount == FetchCountIn(views, MaxViews)

\* A step in which slot s receives the result of a slicing operator.
IsSliceStep(s) ==
    /\ views[s].st = "free"
    /\ views'[s].st = "live"
    /\ views'[s].how \in SliceKinds

\* C10: a step that slices fetches nothing: the number of fetches is what it
\* was, no buffer is materialized, and the stream is where and as it was.
C10_SlicingNeverFetches ==
    [][(\E s \in Slots : IsSliceStep(s)) =>
           /\ FetchCountIn(views', MaxViews) = FetchCount
           /\ handlers' = handlers
           /\ stream' = stream]_vars

\* C10 happens: over a stream, a slice of an undecoded view has been made and
\* nothing was ever fetched.
C10_Witness ==
    \E x \in Live :
        /\ kind = "istream"
        /\ views[x].how \in SliceKinds
        /\ views[x].parent # 0
        /\ views[views[x].parent].slice_.ptr = nullptr
        /\ FetchCount = 0
        /\ handlers = <<>>
        /\ stream.pos = 0

----------------------------------------------------------------------------
(* C11..C20.                                                               *)

\* The view holds the result of a fetch (slice_ has been assigned one).
HoldsFetch(view) == view.slice_ # NoSlice

\* A step in which slot s receives a copy or a slice of a live view.
IsChildStep(s) ==
    /\ views[s].st = "free"
    /\ views'[s].st = "live"
    /\ views'[s].how \in SliceKinds \cup {"copy"}
    /\ views'[s].parent # 0

\* C11: a copy or slice made of a view that holds a fetch result holds the
\* same anchor and the parent's pointer advanced by first (by nothing for
\* (BEGIN, last) and for copies), and a decode of it fetches nothing.
C11_ChildInheritsCache ==
    [][\A s \in Slots :
          (IsChildStep(s) /\ HoldsFetch(views[views'[s].parent])) =>
              LET V == views[views'[s].parent]
                  x == views'[s]
              IN  /\ x.slice_.handler = V.slice_.handler
                  /\ x.slice_.ptr.region = V.slice_.ptr.region
                  /\ x.slice_.ptr.off = V.slice_.ptr.off + x.first
                  /\ \A emptyNull \in BOOLEAN :
                         ptr(x, emptyNull).view.nfetch = x.nfetch]_vars

\* C12: the buffer of an anchor is alive, with the bytes that were fetched,
\* for as long as a live view's cache refers to it, whichever view that is
\* (the one that decoded, a copy, a slice); it is destroyed when no view holds
\* it any more; no live view has a cached pointer into a destroyed buffer.
C12_AnchorOutlivesHolders ==
    /\ \A v \in Live :
           views[v].slice_.ptr.region >= 1 =>
               /\ views[v].slice_.handler = views[v].slice_.ptr.region
               /\ UseCount(views[v].slice_.handler) > 0
               /\ ReadBytes(handlers, views[v].slice_.ptr, 0, size(views[v]), -1)
                      = Window(views[v])
    /\ \A h \in 1..Len(handlers) : UseCount(h) = 0 => handlers[h] = <<>>

\* C12 happens: the view that decoded a stream window is destroyed, and a
\* slice of it, which never fetched, still reads the buffer.
C12_Witness ==
    \E x \in Live :
        /\ views[x].how = "first_end"
        /\ views[x].parent # 0
        /\ views[views[x].parent].st = "dead"
        /\ views[x].nfetch = 0
        /\ views[x].slice_.ptr.region >= 1
        /\ views[x].first > 0
        /\ size(views[x]) > 0

\* C13: every view made from a freshly constructed one by copies and slices
\* with in-contract arguments has 0 <= begin <= end <= source.size(), and its
\* size() is the number of bytes of the source in its window.
C13_WindowInRange ==
    \A v \in Live :
        /\ 0 <= views[v].begin_
        /\ views[v].begin_ <= views[v].end_
        /\ views[v].end_ <= model_size
        /\ size(views[v]) = Len(Window(views[v]))
        /\ empty(views[v]) <=> Window(views[v]) = <<>>

\* C13 happens: a proper slice of a proper slice, both cut at both ends.
C13_Witness ==
    \E x \in Children("first_last") :
        /\ views[x].parent # 0
        /\ views[views[x].parent].how = "first_last"
        /\ views[views[x].parent].first > 0
        /\ views[views[x].parent].end_ < model_size
        /\ views[x].first > 0
        /\ views[x].last < size(views[views[x].parent])

\* The view the caller's span was made from, while that view is alive.
SpanView == IF span.view \in Live THEN views[span.view] ELSE NoView("dead")

\* The bytes the caller's span covers, as they are read now.
SpanBytes == ReadBytes(handlers, span.ptr, 0, span.count * span.T, -1)

\* The elements of the caller's span, as they are read now.
SpanElements ==
    [i \in 1..span.count |->
        Cast(ReadBytes(handlers, span.ptr, (i - 1) * span.T, span.T, -1))]

\* C14: the view constructed from a source has the window
\* [0, source.size()); over a byte buffer B it has size length(B), and its
\* as_span<byte>() has length(B) elements, which are B's.
C14_ConstructedOverWholeSource ==
    /\ \A v \in Live :
           views[v].how = "root" =>
               /\ views[v].begin_ = 0
               /\ views[v].end_ = model_size
               /\ kind = "ptr" => size(views[v]) = Len(arr)
    /\ (kind = "ptr" /\ span # NoSpan /\ span.T = 1 /\ SpanView.how = "root") =>
           /\ span.count = Len(arr)
           /\ SpanBytes = arr
           /\ SpanElements = [i \in 1..Len(arr) |-> Cast(<<arr[i]>>)]

\* C14 happens: as_span<char>() of the view constructed over the buffer.
C14_Witness ==
    /\ kind = "ptr"
    /\ span # NoSpan
    /\ span.T = 1
    /\ SpanView.how = "root"
    /\ span.count = SrcLen

C16_SpanLength ==
    (span # NoSpan /\ span.view \in Live) =>
        LET n == size(SpanView)
            T == span.T
        IN  /\ span.count * T <= n
            /\ n < (span.count + 1) * T
            /\ n < T => span.count = 0
            /\ SpanElements =
                   [i \in 1..span.count |->
                       Cast(SubSeq(Window(SpanView), (i - 1) * T + 1, i * T))]

\* C16 happens: as_span<int16_t>() over a stream window of 3 bytes: one
\* element, one byte left over.
C16_Witness ==
    /\ kind = "istream"
    /\ span # NoSpan
    /\ span.view \in Live
    /\ span.T = 2
    /\ size(SpanView) = 3
    /\ span.count = 1
    /\ SpanView.begin_ > 0

\* A step in which view v fetches.
IsFetchStep(v) ==
    /\ views[v].st = "live"
    /\ views'[v].st = "live"
    /\ views'[v].nfetch = views[v].nfetch + 1

\* C17: a fetch of [b, e) from a stream source, 0 <= b <= e <= size(), makes
\* a new buffer holding exactly the stream's bytes [b, e) and a new anchor that
\* no other view holds, and returns the buffer's start; where the stream stood
\* after earlier fetches makes no difference.
C17_StreamFetchIsFresh ==
    [][\A v \in Slots :
          (kind = "istream" /\ IsFetchStep(v)) =>
              LET h == views'[v].slice_.handler
                  b == views[v].begin_
                  e == views[v].end_
              IN  /\ Len(handlers') = Len(handlers) + 1
                  /\ h = Len(handlers')
                  /\ handlers'[h] = SubSeq(stream.data, b + 1, e)
                  /\ \A w \in Slots \ {v} : views'[w].slice_.handler # h
                  /\ \A w \in Slots \ {v} : views'[w] = views[w]
                  /\ views'[v].slice_.ptr # nullptr =>
                         views'[v].slice_.ptr = [region |-> h, off |-> 0]
                  /\ stream'.ok]_vars

\* C17 happens: two views have each fetched a non-empty window, the second
\* one a window that begins before the place the first fetch left the stream.
C17_Witness ==
    \E v \in Live, w \in Live :
        /\ kind = "istream"
        /\ views[v].nfetch = 1 /\ views[w].nfetch = 1
        /\ views[v].slice_.handler = 1 /\ views[w].slice_.handler = 2
        /\ size(views[v]) > 0 /\ size(views[w]) > 0
        /\ views[w].begin_ < views[v].end_
        /\ handlers[1] # <<>> /\ handlers[2] # <<>>

\* C18: when the seek fails or the read meets the end of the stream early,
\* the fetch reports a failure; no view ends up with a pointer to a buffer
\* that is not the stream's bytes of its window (short, zero-filled, stale) as
\* if the read had succeeded.
C18_NoSilentShortRead ==
    \A v \in Live :
        views[v].slice_.ptr.region >= 1 =>
            /\ views[v].end_ <= stream.phys
            /\ ReadBytes(handlers, views[v].slice_.ptr, 0, size(views[v]), -1)
                   = Window(views[v])

\* C19: with every thread decoding through a view of its own, whatever the
\* interleaving of the decodes, each decode gives the bytes of its own view's
\* window: what a view has cached is the source's bytes of its window.
C19_ThreadsDoNotInterfere ==
    \A v \in Live :
        views[v].slice_.ptr # nullptr =>
            ReadBytes(handlers, views[v].slice_.ptr, 0, size(views[v]), -1)
                = Window(views[v])

\* C20: a fetch of [b, e) from a pointer source is the address ptr + b with
\* no anchor, and nothing is copied: element 0 of as_span<char>() of a
\* pointer-backed view or slice is the buffer's byte at the view's begin.
C20_PtrFetchIsAddress ==
    kind = "ptr" =>
        /\ handlers = <<>>
        /\ \A v \in Live :
               /\ views[v].slice_.handler = 0
               /\ views[v].slice_.ptr # nullptr =>
                      views[v].slice_.ptr = [region |-> 0, off |-> views[v].begin_]
        /\ (span # NoSpan /\ span.view \in Live) =>
               /\ span.ptr = [region |-> 0, off |-> SpanView.begin_]
               /\ span.T = 1 => SpanBytes = Window(SpanView)

\* C20 happens: as_span<char>() of a slice that begins inside the buffer and
\* took its pointer from its decoded parent.
C20_Witness ==
    /\ kind = "ptr"
    /\ span # NoSpan
    /\ span.view \in Live
    /\ span.T = 1
    /\ span.count > 0
    /\ SpanView.how = "first_end"
    /\ SpanView.first > 0
    /\ SpanView.nfetch = 0

----------------------------------------------------------------------------
(* C21..C24.                                                               *)

\* C21: make_memory_view over a container of k elements of type T gives a
\* pointer-backed view of k * sizeof(T) bytes that starts at the container's
\* data: its as_span<T>() has the container's k elements in order, and its
\* as_span<char>() has k * sizeof(T) elements.
C21_MakeMemoryView ==
    LET k == Len(container.elems)
    IN  /\ \A v \in Live :
               views[v].how = "root" =>
                   /\ views[v].begin_ = 0
                   /\ size(views[v]) = k * container.T
                   /\ views[v].slice_.handler = 0
                   /\ views[v].slice_.ptr # nullptr =>
                          views[v].slice_.ptr = [region |-> 0, off |-> 0]
        /\ (span # NoSpan /\ SpanView.how = "root") =>
               /\ span.ptr = [region |-> 0, off |-> 0]
               /\ span.T = container.T =>
                      span.count = k /\ SpanElements = container.elems
               /\ span.T = 1 =>
                      span.count = k * container.T /\ SpanBytes = arr

\* C21 happens: as_span<int16_t>() of the view made over two int16_t that do
\* not fit a byte.
C21_Witness ==
    /\ container.T = 2
    /\ container.elems = <<258, -2>>
    /\ span # NoSpan
    /\ SpanView.how = "root"
    /\ span.T = 2
    /\ span.count = 2

\* What a fresh fetch(begin, end) of the view's window returns, read over the
\* window's length.
FreshFetch(view) ==
    LET got == model_slice(view.begin_, view.end_, TRUE)
    IN  ReadBytes(got.handlers, got.slice.ptr, 0, size(view), -1)

RECURSIVE FetchingOf(_)
FetchingOf(v) ==
    LET x == views[v]
        base == IF x.parent = 0 THEN fetching_memory_view ELSE FetchingOf(x.parent)
    IN  CASE x.how = "root" -> fetching_memory_view
          [] x.how = "copy" -> base
          [] x.how = "first_last" -> fetching_slice_first_last(base, x.first, x.last)
          [] x.how = "first_end" -> fetching_slice_first_end(base, x.first)
          [] x.how = "begin_last" -> fetching_slice_begin_last(base, x.last)
          [] x.how = "tail" -> fetching_slice_first_end(base, x.first)

IsUnpackHeadStep(v, t) ==
    /\ views[v].st = "live"
    /\ views[t].st = "free"
    /\ views'[t].st = "live"
    /\ views'[t].how = "tail"
    /\ views'[t].parent = v
    /\ ret'.op = "unpack_head"

\* C24: unpack_head makes its tail before the view's first fetch: the tail
\* holds a fetch result exactly when the view held one before the call; if it
\* held none, the call leaves the view holding one and the tail none, and the
\* tail's first decode fetches [begin + consumed, end) itself, consumed being
\* sizeof(T1) + ... + sizeof(Tn).
C24_TailMadeBeforeFetch ==
    [][\A v, t \in Slots :
          IsUnpackHeadStep(v, t) =>
              LET view == views[v]
                  tail == views'[t]
                  consumed == SumSizes(ret'.types)
              IN  /\ HoldsFetch(tail) <=> HoldsFetch(view)
                  /\ ~HoldsFetch(view) =>
                         /\ HoldsFetch(views'[v])
                         /\ views'[v].nfetch = view.nfetch + 1
                         /\ tail.nfetch = 0
                         /\ tail.begin_ = view.begin_ + consumed
                         /\ tail.end_ = view.end_
                         /\ InRange(tail)
                         /\ \A emptyNull \in BOOLEAN :
                                ptr(tail, emptyNull).view.nfetch = 1]_vars

====
